---------------------------- MODULE Spec2Model ----------------------------
(***************************************************************************)
(* Card ingestion pipeline of gohye: MDFILES/automate.py (document-store   *)
(* catalog, variant "A") and MDFILES/promoauto.py (JSON-file catalog,      *)
(* variant "B").                                                           *)
(*                                                                         *)
(* File names are sequences of one-character strings, so that the regular  *)
(* expressions, os.path.splitext, str.lower, str.replace and str.split are *)
(* computed character by character as the Python code computes them.       *)
(***************************************************************************)
EXTENDS Integers, Sequences, FiniteSets, TLC

VARIABLES
    variant,          \* "A": automate.py, "B": promoauto.py
    fs,               \* file system: directory path -> set of file names
    bucket,           \* object store: set of uploaded objects
    db_collections,   \* A: db.collections, in insertion order
    db_cards,         \* A: db.cards, in insertion order
    collections_file, \* B: contents of the collections JSON file
    cards_file,       \* B: contents of the cards JSON file
    output_file,      \* report file: sequence of blocks appended by write_output_file
    ps,               \* per pipeline process: position and local variables
    at_entry,         \* history: per process, the catalog when process_directory was called
    path,             \* validator check: the relative path handed to is_valid_filename
    verdict,          \* validator check: what each variant's is_valid_filename returned
    after_pass        \* rename check: the name of a file after each pass of rename_files

vars == <<variant, fs, bucket, db_collections, db_cards, collections_file,
          cards_file, output_file, ps, at_entry, path, verdict, after_pass>>

-----------------------------------------------------------------------------
(* Bounds *)

\* number of directories one pipeline process is given
MaxDirs == 2
\* length of the paths enumerated for the validator
MaxLen == 7
\* length of the file names enumerated for rename_files
MaxNameLen == 5
\* number of passes of rename_files over one file
MaxPasses == 2

-----------------------------------------------------------------------------
(* Characters and strings *)

DigitChars == {"0", "1", "2", "3", "4", "5", "6", "7", "8", "9"}
LowerChars == {"a", "b", "c", "d", "e", "f", "g", "h", "i", "j", "k", "l", "m",
               "n", "o", "p", "q", "r", "s", "t", "u", "v", "w", "x", "y", "z"}
UpperChars == {"A", "F", "G", "I"}

\* \d of the re module, on the characters of the model
IsDigit(c) == c \in DigitChars

\* \w of the re module: letters, digits and the underscore
IsWord(c) == c \in DigitChars \cup LowerChars \cup UpperChars \cup {"_"}

\* str.lower on one character
LowerChar(c) ==
    CASE c = "A" -> "a"
      [] c = "F" -> "f"
      [] c = "G" -> "g"
      [] c = "I" -> "i"
      [] OTHER -> c

\* str.lower
Lower(s) == [k \in 1..Len(s) |-> LowerChar(s[k])]

\* str.replace(' ', '_')
ReplaceSpaces(s) == [k \in 1..Len(s) |-> IF s[k] = " " THEN "_" ELSE s[k]]

\* \d+ and \w+ over the characters a..b of s
AllDigits(s, a, b) == \A k \in a..b : IsDigit(s[k])

AllWord(s, a, b) == \A k \in a..b : IsWord(s[k])

\* Largest index of character c in s, 0 when absent (str.rfind, 1-based).
RFind(s, c) ==
    LET hits == {k \in 1..Len(s) : s[k] = c}
    IN  IF hits = {} THEN 0 ELSE CHOOSE k \in hits : \A h \in hits : h <= k

\* Smallest index of character c in s, 0 when absent (str.find, 1-based).
Find(s, c) ==
    LET hits == {k \in 1..Len(s) : s[k] = c}
    IN  IF hits = {} THEN 0 ELSE CHOOSE k \in hits : \A h \in hits : k <= h

\* Index of the dot that starts the extension, 0 when there is none:
\* the last dot after the last "/" that is not one of the leading dots
\* of the basename.
ExtDot(p) ==
    LET sep == RFind(p, "/")
        dot == RFind(p, ".")
    IN  IF dot > sep /\ \E k \in (sep + 1)..(dot - 1) : p[k] # "."
        THEN dot ELSE 0

\* os.path.splitext(p)[0]
Stem(p) == IF ExtDot(p) = 0 THEN p ELSE SubSeq(p, 1, ExtDot(p) - 1)

\* os.path.splitext(p)[1]
Ext(p) == IF ExtDot(p) = 0 THEN <<>> ELSE SubSeq(p, ExtDot(p), Len(p))

\* s.split('_')[0]
FirstField(s) == IF Find(s, "_") = 0 THEN s ELSE SubSeq(s, 1, Find(s, "_") - 1)

\* '_'.join(s.split('_')[1:])
RestFields(s) == IF Find(s, "_") = 0 THEN <<>> ELSE SubSeq(s, Find(s, "_") + 1, Len(s))

DigitVal(c) == CASE c = "0" -> 0 [] c = "1" -> 1 [] c = "2" -> 2 [] c = "3" -> 3
                [] c = "4" -> 4 [] c = "5" -> 5 [] c = "6" -> 6 [] c = "7" -> 7
                [] c = "8" -> 8 [] c = "9" -> 9

\* int(s) for a non-empty string of digits
RECURSIVE ToInt(_)
ToInt(s) ==
    IF Len(s) = 0 THEN 0
    ELSE 10 * ToInt(SubSeq(s, 1, Len(s) - 1)) + DigitVal(s[Len(s)])

DigitOf(n) == CASE n = 0 -> "0" [] n = 1 -> "1" [] n = 2 -> "2" [] n = 3 -> "3"
                [] n = 4 -> "4" [] n = 5 -> "5" [] n = 6 -> "6" [] n = 7 -> "7"
                [] n = 8 -> "8" [] n = 9 -> "9"

\* str(n) of the f-string, for a natural number
RECURSIVE ToStr(_)
ToStr(n) == IF n < 10 THEN <<DigitOf(n)>> ELSE ToStr(n \div 10) \o <<DigitOf(n % 10)>>

GifExt == <<".", "g", "i", "f">>
JpgExt == <<".", "j", "p", "g">>
PngExt == <<".", "p", "n", "g">>
JpegExt == <<".", "j", "p", "e", "g">>

ACCEPTED_EXTENSIONS == {JpgExt, PngExt, JpegExt, GifExt}

-----------------------------------------------------------------------------
(* Filename validator *)

\* re.match of \d+_\w+(\_\w+)?\.\w+ : the pattern must match a prefix of s.
\* d is the last digit, w the last character of the first word group, and
\* v, when the optional group takes part, the last character of the second.
is_valid_filename_A(s) ==
    \E d \in 1..Len(s) : \E w \in (d + 2)..Len(s) :
        /\ AllDigits(s, 1, d)
        /\ s[d + 1] = "_"
        /\ AllWord(s, d + 2, w)
        /\ \/ /\ w + 2 <= Len(s)
              /\ s[w + 1] = "."
              /\ IsWord(s[w + 2])
           \/ \E v \in (w + 2)..Len(s) :
                /\ s[w + 1] = "_"
                /\ AllWord(s, w + 2, v)
                /\ v + 2 <= Len(s)
                /\ s[v + 1] = "."
                /\ IsWord(s[v + 2])

\* re.match of \d+_\w+_\w+\.\w+ : as above with the second group required.
is_valid_filename_B(s) ==
    \E d \in 1..Len(s) : \E w \in (d + 2)..Len(s) : \E v \in (w + 2)..Len(s) :
        /\ AllDigits(s, 1, d)
        /\ s[d + 1] = "_"
        /\ AllWord(s, d + 2, w)
        /\ s[w + 1] = "_"
        /\ AllWord(s, w + 2, v)
        /\ v + 2 <= Len(s)
        /\ s[v + 1] = "."
        /\ IsWord(s[v + 2])

is_valid_filename(v, s) ==
    IF v = "A" THEN is_valid_filename_A(s) ELSE is_valid_filename_B(s)

-----------------------------------------------------------------------------
(* Input directories *)

\* File names as they lie in the input directories before rename_files.
f_1_a_jpg   == <<"1", "_", "a", ".", "j", "p", "g">>
f_2_a_jpg   == <<"2", "_", "a", ".", "j", "p", "g">>
f_bad_jpg   == <<"b", "!", ".", "j", "p", "g">>
f_1_a_b_GIF == <<"1", "_", "a", "_", "b", ".", "G", "I", "F">>
f_2_A_b_png == <<"2", "_", "A", " ", "b", ".", "p", "n", "g">>
f_01_c_d_gif == <<"0", "1", "_", "c", "_", "d", ".", "g", "i", "f">>
f_3_e_f_jpeg == <<"3", "_", "e", "_", "f", ".", "j", "p", "e", "g">>
f_2_a_b_jpg == <<"2", "_", "a", "_", "b", ".", "j", "p", "g">>
f_3_c_d_bmp == <<"3", "_", "c", "_", "d", ".", "b", "m", "p">>

\* The category groups main() iterates, in order.
Groups(v) ==
    IF v = "A" THEN <<"girlgroups", "boygroups">>
    ELSE <<"girlgroups", "boygroups", "promo_girlgroups", "promo_boygroups">>

GroupIndex(v, g) == CHOOSE k \in 1..Len(Groups(v)) : Groups(v)[k] = g

\* Candidate input directories: path, category group and basename.
Dirs ==
    { [path |-> "gg/x", group |-> "girlgroups", folder |-> "x"],
      [path |-> "gg/y", group |-> "girlgroups", folder |-> "y"],
      [path |-> "bg/x", group |-> "boygroups", folder |-> "x"],
      [path |-> "promo/gg/y", group |-> "promo_girlgroups", folder |-> "y"] }

DirPaths == {d.path : d \in Dirs}

InitialFiles ==
    [q \in DirPaths |->
        CASE q = "gg/x" -> {f_1_a_jpg, f_2_a_jpg, f_bad_jpg}
          [] q = "gg/y" -> {f_1_a_b_GIF, f_2_A_b_png}
          [] q = "bg/x" -> {f_01_c_d_gif, f_3_e_f_jpeg}
          [] q = "promo/gg/y" -> {f_2_a_b_jpg, f_3_c_d_bmp}]

\* input_directories flattened in the order main() visits it: group by group,
\* within a group the distinct subdirectories in the order os.listdir gave.
InputLists(v) ==
    { s \in UNION {[1..n -> Dirs] : n \in 1..MaxDirs} :
        /\ \A k \in 1..Len(s) : \E g \in 1..Len(Groups(v)) : Groups(v)[g] = s[k].group
        /\ \A a, b \in 1..Len(s) : s[a] = s[b] => a = b
        /\ \A k \in 1..(Len(s) - 1) :
              GroupIndex(v, s[k].group) <= GroupIndex(v, s[k + 1].group) }

Procs == {1, 2}

\* Python's None where an id is expected.
NoneId == -1

-----------------------------------------------------------------------------
(* rename_files *)

\* normalize with the whole name taken for file_name
normalize_whole_name(file) == ReplaceSpaces(Lower(file)) \o Ext(file)

\* new_file_name + file_ext for one file
normalize(file) == ReplaceSpaces(Lower(Stem(file))) \o Ext(file)

-----------------------------------------------------------------------------
(* upload_file *)

\* new_file_ext with the comparison made case-sensitive
new_file_ext_case_sensitive(file_ext) == IF file_ext = GifExt THEN file_ext ELSE JpgExt

\* new_file_ext: the source extension for a gif, ".jpg" otherwise
new_file_ext(file_ext) == IF Lower(file_ext) = GifExt THEN file_ext ELSE JpgExt

content_type(file_ext) == IF Lower(file_ext) = GifExt THEN "image/gif" ELSE "image/jpeg"

relative_path_new_ext(relative_path) ==
    Stem(relative_path) \o new_file_ext(Ext(relative_path))

\* target_directory as process_directory receives it
TargetDirectory(v, group) ==
    IF v = "A" THEN group
    ELSE IF group \in {"promo_girlgroups", "girlgroups"} THEN "girlgroups" ELSE "boygroups"

\* The object key, segment by segment.
s3_path(v, d, relative_path) ==
    IF v = "A"
    THEN <<"cards", d.group, d.folder, relative_path_new_ext(relative_path)>>
    ELSE IF d.group \in {"promo_girlgroups", "promo_boygroups"}
         THEN <<"promo", TargetDirectory(v, d.group), d.folder,
                 relative_path_new_ext(relative_path)>>
         ELSE <<"", TargetDirectory(v, d.group), d.folder,
                 relative_path_new_ext(relative_path)>>

\* The object s3_client.upload_file stores for a file.
UploadedObject(v, d, relative_path) ==
    [key |-> s3_path(v, d, relative_path),
     content_type |-> content_type(Ext(relative_path)),
     source |-> relative_path]

\* The marker object create_folder puts.
FolderObject(v, d) ==
    [key |-> s3_path(v, d, <<>>), content_type |-> "none", source |-> <<>>]

-----------------------------------------------------------------------------
(* Catalog records *)

RECURSIVE MaxId(_)
\* The largest "id" among the card records of a non-empty sequence.
MaxId(cards) ==
    IF Len(cards) = 1 THEN cards[1].id
    ELSE LET m == MaxId(Tail(cards))
         IN  IF cards[1].id > m THEN cards[1].id ELSE m

RECURSIVE MinId(_)
MinId(cards) ==
    IF Len(cards) = 1 THEN cards[1].id
    ELSE LET m == MinId(Tail(cards))
         IN  IF cards[1].id < m THEN cards[1].id ELSE m

\* new_collection of either variant (name, origin and the time stamp left out)
new_collection(folder_name, target_directory) ==
    [id |-> folder_name, aliases |-> <<folder_name>>, promo |-> FALSE,
     compressed |-> TRUE, rarity |-> -1, tags |-> <<target_directory>>]

\* collection_exists with the lookup restricted to promotional collections
collection_exists_promo_only(collections, folder_name) ==
    \E k \in 1..Len(collections) :
        collections[k].id = folder_name /\ collections[k].promo

collection_exists(collections, folder_name) ==
    \E k \in 1..Len(collections) : collections[k].id = folder_name

\* level = int(card_id.split('_')[0]) with card_id = file_name.lower()
level_of(file) == ToInt(FirstField(Lower(Stem(file))))

\* name_without_prefix = '_'.join(card_id.split('_')[1:])
name_without_prefix(file) == RestFields(Lower(Stem(file)))

is_animated(file) == Lower(Ext(file)) = GifExt

\* next_id_A with the sort direction reversed
next_id_A_ascending(cards) == IF cards = <<>> THEN 0 ELSE MinId(cards) + 1

\* A: last_card = db.cards.find_one(sort=[('id', -1)]); next_id = last_card.id + 1, or 0
next_id_A(cards) == IF cards = <<>> THEN 0 ELSE MaxId(cards) + 1

\* A: base_path, segment by segment: the file part always ends in ".jpg"
base_path(d, file) ==
    <<"cards", d.group, d.folder,
      ToStr(level_of(file)) \o <<"_">> \o name_without_prefix(file) \o JpgExt>>

\* A: new_card
new_card_A(d, file, next_id) ==
    [id |-> next_id, name |-> name_without_prefix(file), level |-> level_of(file),
     col |-> d.folder, animated |-> is_animated(file), tags |-> d.group,
     url |-> base_path(d, file)]

\* A: what update_database returns when it does not raise
update_database_return(new_collection_added) == "True"

\* B: next_id = max(card["id"] ...) + 1 if cards_data else 0
next_id_B(cards_data) == IF cards_data = <<>> THEN 0 ELSE MaxId(cards_data) + 1

\* B: new_card
new_card_B(d, target_directory, file, next_id) ==
    [name |-> name_without_prefix(file), level |-> level_of(file),
     animated |-> is_animated(file), col |-> d.folder, id |-> next_id,
     tags |-> target_directory]

\* B: existing_card
existing_card(cards_data, name, folder_name) ==
    \E k \in 1..Len(cards_data) :
        cards_data[k].name = name /\ cards_data[k].col = folder_name

SeqToSet(s) == {s[k] : k \in 1..Len(s)}

\* card_step_B without the existing_card check
card_step_B_no_existing_check(cards_data, next_id, d, target_directory, valid_files, file) ==
    IF file \notin SeqToSet(valid_files) THEN <<cards_data, next_id>>
    ELSE IF Lower(Ext(file)) \notin ACCEPTED_EXTENSIONS THEN <<cards_data, next_id>>
    ELSE <<Append(cards_data, new_card_B(d, target_directory, file, next_id)),
           next_id + 1>>

\* B: the body of the loop over the files of the directory, for one file:
\* the pair <<cards_data, next_id>> after it.
card_step_B(cards_data, next_id, d, target_directory, valid_files, file) ==
    IF file \notin SeqToSet(valid_files) THEN <<cards_data, next_id>>
    ELSE IF Lower(Ext(file)) \notin ACCEPTED_EXTENSIONS THEN <<cards_data, next_id>>
    ELSE IF existing_card(cards_data, name_without_prefix(file), d.folder)
         THEN <<cards_data, next_id>>
    ELSE <<Append(cards_data, new_card_B(d, target_directory, file, next_id)),
           next_id + 1>>

RECURSIVE card_loop_B(_, _, _, _, _, _)
\* B: the loop over the files in the order os.walk lists them
card_loop_B(cards_data, next_id, d, target_directory, valid_files, files) ==
    IF files = <<>> THEN cards_data
    ELSE LET r == card_step_B(cards_data, next_id, d, target_directory,
                              valid_files, Head(files))
         IN  card_loop_B(r[1], r[2], d, target_directory, valid_files, Tail(files))

\* B: what update_json_files returns when it does not raise (it has no return)
update_json_files_return(new_collection_added) == "None"

\* Python truth value of the signal
Truthy(x) == x = "True"

\* The orders in which a directory listing can give a set of files.
Listings(S) ==
    {s \in [1..Cardinality(S) -> S] : \A a, b \in 1..Cardinality(S) : a # b => s[a] # s[b]}

-----------------------------------------------------------------------------
(* Process state *)

NoDir == [path |-> "", group |-> "", folder |-> ""]

NoResult == [valid_files |-> <<>>, new_collection_added |-> "unset"]

\* The local variables of main() and of the functions it calls, at the head
\* of main's loop over the input directories.
Locals(todo) ==
    [pc |-> "main", todo |-> todo, dir |-> NoDir,
     futures |-> <<>>, finished |-> <<>>, collected |-> 0, valid_files |-> <<>>,
     raised |-> "none", i |-> 1, next_id |-> NoneId, new_collection_added |-> FALSE,
     cards_data |-> <<>>, collections_data |-> <<>>,
     result |-> NoResult, error_messages |-> <<>>]

Idle == [Locals(<<>>) EXCEPT !.pc = "done"]

CardProcessingErrors == {"CardProcessingError1", "CardProcessingError2"}

\* process_directory returns: the frames of the functions it called are gone,
\* main holds the pair it returned.
Return(l, valid_files, new_collection_added) ==
    [Locals(l.todo) EXCEPT
        !.pc = "returned", !.dir = l.dir,
        !.result = [valid_files |-> valid_files,
                    new_collection_added |-> new_collection_added]]

\* main goes on to the next directory; e is what its except clause caught,
\* "none" when the block of the directory was written.
Continue(l, e) ==
    [Locals(l.todo) EXCEPT
        !.raised = e,
        !.error_messages = IF e = "none" THEN <<>> ELSE <<e>>]

\* process_directory's except clauses, and main's around the call: variant A
\* catches every exception and returns ([], False); variant B catches
\* CardProcessingError only, anything else reaches main's except, which
\* records the message and continues with the next directory.
Except(v, l, e) ==
    IF v = "A" \/ e \in CardProcessingErrors
    THEN [Return(l, <<>>, "False") EXCEPT !.raised = e]
    ELSE Continue(l, e)

\* Unfinished with the queued tasks cancelled
UnfinishedRunning(l) == {f \in DOMAIN l.futures : l.futures[f] = "running"}

Unfinished(l) == {f \in DOMAIN l.futures : l.futures[f] \in {"queued", "running"}}

CatalogUnchanged == UNCHANGED <<db_collections, db_cards, collections_file, cards_file>>

\* The persisted catalog of the variant that runs.
Collections == IF variant = "A" THEN db_collections ELSE collections_file

Cards == IF variant = "A" THEN db_cards ELSE cards_file

Catalog == [collections |-> Collections, cards |-> Cards]

EmptyCatalog == [collections |-> <<>>, cards |-> <<>>]

Frame == UNCHANGED <<variant, at_entry, path, verdict, after_pass>>

-----------------------------------------------------------------------------
(* main: the loop over the input directories *)

\* The next input directory: error_messages = [] and the call of process_directory.
MainNext(p) ==
    /\ ps[p].pc = "main"
    /\ ps[p].todo # <<>>
    /\ ps' = [ps EXCEPT ![p] = [Locals(Tail(ps[p].todo)) EXCEPT
                                   !.pc = "create_folder", !.dir = Head(ps[p].todo)]]
    /\ at_entry' = [at_entry EXCEPT ![p] = Catalog]
    /\ UNCHANGED <<fs, bucket, output_file, variant, path, verdict, after_pass>>
    /\ CatalogUnchanged

MainDone(p) ==
    /\ ps[p].pc = "main"
    /\ ps[p].todo = <<>>
    /\ ps' = [ps EXCEPT ![p] = Idle]
    /\ UNCHANGED <<fs, bucket, output_file>>
    /\ CatalogUnchanged /\ Frame

-----------------------------------------------------------------------------
(* process_directory: create_folder, rename_files *)

CreateFolder(p) ==
    /\ ps[p].pc = "create_folder"
    /\ bucket' = bucket \cup {FolderObject(variant, ps[p].dir)}
    /\ ps' = [ps EXCEPT ![p].pc = "rename_files"]
    /\ UNCHANGED <<fs, output_file>>
    /\ CatalogUnchanged /\ Frame

\* CreateFolderFail with the exception swallowed: the run goes on to rename
CreateFolderFailIgnored(p) ==
    /\ ps[p].pc = "create_folder"
    /\ ps' = [ps EXCEPT ![p].pc = "rename_files"]
    /\ UNCHANGED <<fs, bucket, output_file>>
    /\ CatalogUnchanged /\ Frame

\* s3_client.put_object raises
CreateFolderFail(p) ==
    /\ ps[p].pc = "create_folder"
    /\ ps' = [ps EXCEPT ![p] = Except(variant, ps[p], "Exception")]
    /\ UNCHANGED <<fs, bucket, output_file>>
    /\ CatalogUnchanged /\ Frame

RenameFiles(p) ==
    /\ ps[p].pc = "rename_files"
    /\ fs' = [fs EXCEPT ![ps[p].dir.path] = {normalize(f) : f \in fs[ps[p].dir.path]}]
    /\ ps' = [ps EXCEPT ![p].pc = "upload_files"]
    /\ UNCHANGED <<bucket, output_file>>
    /\ CatalogUnchanged /\ Frame

\* os.rename raises after the files of `renamed` have been renamed
RenameFilesFail(p) ==
    /\ ps[p].pc = "rename_files"
    /\ \E renamed \in SUBSET fs[ps[p].dir.path] :
          /\ renamed # fs[ps[p].dir.path]
          /\ fs' = [fs EXCEPT ![ps[p].dir.path] =
                       (fs[ps[p].dir.path] \ renamed) \cup {normalize(f) : f \in renamed}]
    /\ ps' = [ps EXCEPT ![p] = Except(variant, ps[p], "Exception")]
    /\ UNCHANGED <<bucket, output_file>>
    /\ CatalogUnchanged /\ Frame

-----------------------------------------------------------------------------
(* upload_files and its thread pool *)

\* all_files and one executor.submit per file
Submit(p) ==
    /\ ps[p].pc = "upload_files"
    /\ ps' = [ps EXCEPT ![p].futures = [f \in fs[ps[p].dir.path] |-> "queued"],
                        ![p].pc = "as_completed"]
    /\ UNCHANGED <<fs, bucket, output_file>>
    /\ CatalogUnchanged /\ Frame

\* A worker thread takes a queued task.
TaskStart(p, f) ==
    /\ ps[p].pc \in {"as_completed", "shutdown"}
    /\ f \in DOMAIN ps[p].futures
    /\ ps[p].futures[f] = "queued"
    /\ ps' = [ps EXCEPT ![p].futures[f] = "running"]
    /\ UNCHANGED <<fs, bucket, output_file>>
    /\ CatalogUnchanged /\ Frame

\* TaskSkip with the rejection raised as an error
TaskSkipRaising(p, f) ==
    /\ f \in DOMAIN ps[p].futures
    /\ ps[p].futures[f] = "running"
    /\ ~is_valid_filename(variant, f)
    /\ ps' = [ps EXCEPT ![p].futures[f] = "raised",
                        ![p].finished = Append(ps[p].finished, f)]
    /\ UNCHANGED <<fs, bucket, output_file>>
    /\ CatalogUnchanged /\ Frame

\* upload_file returns None for an invalid name.
TaskSkip(p, f) ==
    /\ f \in DOMAIN ps[p].futures
    /\ ps[p].futures[f] = "running"
    /\ ~is_valid_filename(variant, f)
    /\ ps' = [ps EXCEPT ![p].futures[f] = "none",
                        ![p].finished = Append(ps[p].finished, f)]
    /\ UNCHANGED <<fs, bucket, output_file>>
    /\ CatalogUnchanged /\ Frame

\* upload_file stores the object and returns relative_path.
TaskUpload(p, f) ==
    /\ f \in DOMAIN ps[p].futures
    /\ ps[p].futures[f] = "running"
    /\ is_valid_filename(variant, f)
    /\ LET o == UploadedObject(variant, ps[p].dir, f)
       IN  bucket' = {x \in bucket : x.key # o.key} \cup {o}
    /\ ps' = [ps EXCEPT ![p].futures[f] = "returned",
                        ![p].finished = Append(ps[p].finished, f)]
    /\ UNCHANGED <<fs, output_file>>
    /\ CatalogUnchanged /\ Frame

\* s3_client.upload_file raises: upload_file raises CardProcessingError(.., 1).
TaskUploadFail(p, f) ==
    /\ f \in DOMAIN ps[p].futures
    /\ ps[p].futures[f] = "running"
    /\ is_valid_filename(variant, f)
    /\ ps' = [ps EXCEPT ![p].futures[f] = "raised",
                        ![p].finished = Append(ps[p].finished, f)]
    /\ UNCHANGED <<fs, bucket, output_file>>
    /\ CatalogUnchanged /\ Frame

\* Collect with the exception of future.result() taken for a result
CollectIgnoringError(p) ==
    /\ ps[p].pc = "as_completed"
    /\ ps[p].collected < Len(ps[p].finished)
    /\ LET f == ps[p].finished[ps[p].collected + 1]
           st == ps[p].futures[f]
       IN  ps' = [ps EXCEPT ![p] =
                [@ EXCEPT !.collected = @ + 1,
                          !.valid_files = IF st # "none" THEN Append(@, f) ELSE @]]
    /\ UNCHANGED <<fs, bucket, output_file>>
    /\ CatalogUnchanged /\ Frame

\* One turn of the loop over as_completed(futures): future.result() of the
\* next finished future returns or raises.
Collect(p) ==
    /\ ps[p].pc = "as_completed"
    /\ ps[p].collected < Len(ps[p].finished)
    /\ LET f == ps[p].finished[ps[p].collected + 1]
           st == ps[p].futures[f]
       IN  ps' = [ps EXCEPT ![p] =
                IF st = "raised"
                THEN [@ EXCEPT !.raised = "CardProcessingError1", !.pc = "shutdown"]
                ELSE [@ EXCEPT !.collected = @ + 1,
                               !.valid_files = IF st = "returned" THEN Append(@, f) ELSE @]]
    /\ UNCHANGED <<fs, bucket, output_file>>
    /\ CatalogUnchanged /\ Frame

\* as_completed is exhausted.
CollectEnd(p) ==
    /\ ps[p].pc = "as_completed"
    /\ ps[p].collected = Cardinality(DOMAIN ps[p].futures)
    /\ ps' = [ps EXCEPT ![p].pc = "shutdown"]
    /\ UNCHANGED <<fs, bucket, output_file>>
    /\ CatalogUnchanged /\ Frame

\* Shutdown that does not wait for the tasks
ShutdownNoWait(p) ==
    /\ ps[p].pc = "shutdown"
    /\ ps' = [ps EXCEPT ![p] =
                IF ps[p].raised = "none"
                THEN [@ EXCEPT !.pc = IF variant = "A" THEN "find_collection" ELSE "json_load"]
                ELSE [@ EXCEPT !.pc = "returned",
                               !.result = [valid_files |-> <<>>,
                                           new_collection_added |-> "False"]]]
    /\ UNCHANGED <<fs, bucket, output_file>>
    /\ CatalogUnchanged /\ Frame

\* Shutdown with the exception of future.result() dropped
ShutdownDroppingError(p) ==
    /\ ps[p].pc = "shutdown"
    /\ Unfinished(ps[p]) = {}
    /\ ps' = [ps EXCEPT ![p].pc = IF variant = "A" THEN "find_collection" ELSE "json_load"]
    /\ UNCHANGED <<fs, bucket, output_file>>
    /\ CatalogUnchanged /\ Frame

\* Leaving the with block: executor.shutdown(wait=True) returns when no task
\* is queued or running; then upload_files returns valid_files, or the
\* exception of future.result() goes on to process_directory.
Shutdown(p) ==
    /\ ps[p].pc = "shutdown"
    /\ Unfinished(ps[p]) = {}
    /\ ps' = [ps EXCEPT ![p] =
                IF ps[p].raised = "none"
                THEN [@ EXCEPT !.pc = IF variant = "A" THEN "find_collection" ELSE "json_load"]
                ELSE Except(variant, @, ps[p].raised)]
    /\ UNCHANGED <<fs, bucket, output_file>>
    /\ CatalogUnchanged /\ Frame

-----------------------------------------------------------------------------
(* A: update_database *)

\* existing_collection = db.collections.find_one({'id': folder_name})
FindCollection(p) ==
    /\ ps[p].pc = "find_collection"
    /\ ps' = [ps EXCEPT ![p].new_collection_added = FALSE,
                        ![p].i = 1,
                        ![p].pc = IF collection_exists(db_collections, ps[p].dir.folder)
                                  THEN "find_last_card" ELSE "insert_collection"]
    /\ UNCHANGED <<fs, bucket, output_file>>
    /\ CatalogUnchanged /\ Frame

\* db.collections.insert_one(new_collection)
InsertCollection(p) ==
    /\ ps[p].pc = "insert_collection"
    /\ db_collections' = Append(db_collections,
                                new_collection(ps[p].dir.folder, ps[p].dir.group))
    /\ ps' = [ps EXCEPT ![p].new_collection_added = TRUE, ![p].pc = "find_last_card"]
    /\ UNCHANGED <<fs, bucket, output_file, db_cards, collections_file, cards_file>>
    /\ Frame

\* last_card = db.cards.find_one(sort=[('id', -1)]) and next_id, for the
\* i-th file of valid_files
FindLastCard(p) ==
    /\ ps[p].pc = "find_last_card"
    /\ ps[p].i <= Len(ps[p].valid_files)
    /\ ps' = [ps EXCEPT ![p].next_id = next_id_A(db_cards), ![p].pc = "insert_card"]
    /\ UNCHANGED <<fs, bucket, output_file>>
    /\ CatalogUnchanged /\ Frame

\* InsertedCard with the id computed at the insertion itself
InsertedCardFreshId(l) == new_card_A(l.dir, l.valid_files[l.i], next_id_A(db_cards))

\* The card record db.cards.insert_one stores for the i-th file.
InsertedCard(l) == new_card_A(l.dir, l.valid_files[l.i], l.next_id)

\* db.cards.insert_one(new_card)
InsertCard(p) ==
    /\ ps[p].pc = "insert_card"
    /\ db_cards' = Append(db_cards, InsertedCard(ps[p]))
    /\ ps' = [ps EXCEPT ![p].i = @ + 1, ![p].pc = "find_last_card"]
    /\ UNCHANGED <<fs, bucket, output_file, db_collections, collections_file, cards_file>>
    /\ Frame

\* The loop is over: update_database returns and process_directory returns
\* (valid_files, new_collection_added).
UpdateDatabaseReturn(p) ==
    /\ ps[p].pc = "find_last_card"
    /\ ps[p].i > Len(ps[p].valid_files)
    /\ ps' = [ps EXCEPT ![p] =
                Return(@, ps[p].valid_files,
                       update_database_return(ps[p].new_collection_added))]
    /\ UNCHANGED <<fs, bucket, output_file>>
    /\ CatalogUnchanged /\ Frame

\* DatabaseFail with the writes of the run undone
DatabaseFailWithRollback(p) ==
    /\ \/ ps[p].pc \in {"find_collection", "insert_collection", "insert_card"}
       \/ ps[p].pc = "find_last_card" /\ ps[p].i <= Len(ps[p].valid_files)
    /\ ps' = [ps EXCEPT ![p] = Except(variant, @, "CardProcessingError2")]
    /\ db_collections' = at_entry[p].collections
    /\ db_cards' = at_entry[p].cards
    /\ UNCHANGED <<fs, bucket, output_file, collections_file, cards_file>>
    /\ Frame

\* A call of the document store raises: update_database raises
\* CardProcessingError(.., 2).
DatabaseFail(p) ==
    /\ \/ ps[p].pc \in {"find_collection", "insert_collection", "insert_card"}
       \/ ps[p].pc = "find_last_card" /\ ps[p].i <= Len(ps[p].valid_files)
    /\ ps' = [ps EXCEPT ![p] = Except(variant, @, "CardProcessingError2")]
    /\ UNCHANGED <<fs, bucket, output_file>>
    /\ CatalogUnchanged /\ Frame

-----------------------------------------------------------------------------
(* B: update_json_files *)

\* json.load of the two files
JsonLoad(p) ==
    /\ ps[p].pc = "json_load"
    /\ ps' = [ps EXCEPT ![p].cards_data = cards_file,
                        ![p].collections_data = collections_file,
                        ![p].pc = "json_build"]
    /\ UNCHANGED <<fs, bucket, output_file>>
    /\ CatalogUnchanged /\ Frame

\* collections_data after the check for the folder's collection
collections_after(collections_data, folder_name, target_directory) ==
    IF collection_exists(collections_data, folder_name) THEN collections_data
    ELSE Append(collections_data, new_collection(folder_name, target_directory))

\* JsonBuild with the collection record written to the file at once
JsonBuildPersisting(p) ==
    /\ ps[p].pc = "json_build"
    /\ \E files \in Listings(fs[ps[p].dir.path]) :
          LET l == ps[p]
              target_directory == TargetDirectory(variant, l.dir.group)
          IN  /\ ps' = [ps EXCEPT
                    ![p].next_id = next_id_B(l.cards_data),
                    ![p].new_collection_added =
                        ~collection_exists(l.collections_data, l.dir.folder),
                    ![p].collections_data =
                        collections_after(l.collections_data, l.dir.folder,
                                          target_directory),
                    ![p].cards_data =
                        card_loop_B(l.cards_data, next_id_B(l.cards_data), l.dir,
                                    target_directory, l.valid_files, files),
                    ![p].pc = "write_cards"]
              /\ collections_file' =
                    collections_after(l.collections_data, l.dir.folder, target_directory)
    /\ UNCHANGED <<fs, bucket, output_file, db_collections, db_cards, cards_file>>
    /\ Frame

\* next_id, the collection record and the loop over the files, all in memory
JsonBuild(p) ==
    /\ ps[p].pc = "json_build"
    /\ \E files \in Listings(fs[ps[p].dir.path]) :
          LET l == ps[p]
              target_directory == TargetDirectory(variant, l.dir.group)
          IN  ps' = [ps EXCEPT
                ![p].next_id = next_id_B(l.cards_data),
                ![p].new_collection_added =
                    ~collection_exists(l.collections_data, l.dir.folder),
                ![p].collections_data =
                    collections_after(l.collections_data, l.dir.folder, target_directory),
                ![p].cards_data =
                    card_loop_B(l.cards_data, next_id_B(l.cards_data), l.dir,
                                target_directory, l.valid_files, files),
                ![p].pc = "write_cards"]
    /\ UNCHANGED <<fs, bucket, output_file>>
    /\ CatalogUnchanged /\ Frame

\* json.dump(cards_data, ..) to cards_file
WriteCards(p) ==
    /\ ps[p].pc = "write_cards"
    /\ cards_file' = ps[p].cards_data
    /\ ps' = [ps EXCEPT ![p].pc = "write_collections"]
    /\ UNCHANGED <<fs, bucket, output_file, db_collections, db_cards, collections_file>>
    /\ Frame

\* json.dump(collections_data, ..) to collections_file; update_json_files
\* ends and process_directory returns (valid_files, new_collection_added).
WriteCollections(p) ==
    /\ ps[p].pc = "write_collections"
    /\ collections_file' = ps[p].collections_data
    /\ ps' = [ps EXCEPT ![p] =
                Return(@, ps[p].valid_files,
                       update_json_files_return(ps[p].new_collection_added))]
    /\ UNCHANGED <<fs, bucket, output_file, db_collections, db_cards, cards_file>>
    /\ Frame

\* A step of update_json_files raises (opening or reading a file, building
\* the records, opening a file for writing): CardProcessingError(.., 2).
JsonFail(p) ==
    /\ ps[p].pc \in {"json_load", "json_build", "write_cards", "write_collections"}
    /\ ps' = [ps EXCEPT ![p] = Except(variant, @, "CardProcessingError2")]
    /\ UNCHANGED <<fs, bucket, output_file>>
    /\ CatalogUnchanged /\ Frame

-----------------------------------------------------------------------------
(* write_output_file *)

CardsOf(cards, collection) == SelectSeq(cards, LAMBDA c : c.col = collection)

\* A: the block of one directory; first and last id are read from db.cards.
BlockA(l, cards) ==
    [group |-> l.dir.group, collection |-> l.dir.folder,
     ncards |-> Len(l.result.valid_files), files |-> l.result.valid_files,
     first |-> IF CardsOf(cards, l.dir.folder) = <<>> THEN NoneId
               ELSE MinId(CardsOf(cards, l.dir.folder)),
     last |-> IF CardsOf(cards, l.dir.folder) = <<>> THEN NoneId
              ELSE MaxId(CardsOf(cards, l.dir.folder)),
     errors |-> l.error_messages, complete |-> TRUE, added |-> "none"]

\* The lines written before the ids are looked up.
PartialBlock(l) ==
    [group |-> l.dir.group, collection |-> l.dir.folder,
     ncards |-> Len(l.result.valid_files), files |-> l.result.valid_files,
     first |-> NoneId, last |-> NoneId,
     errors |-> <<>>, complete |-> FALSE, added |-> "none"]

\* A: main writes the block of the directory process_directory returned from.
WriteOutputA(p) ==
    /\ variant = "A"
    /\ ps[p].pc = "returned"
    /\ output_file' = Append(output_file, BlockA(ps[p], db_cards))
    /\ ps' = [ps EXCEPT ![p] = Continue(@, "none")]
    /\ UNCHANGED <<fs, bucket>>
    /\ CatalogUnchanged /\ Frame

\* A: db.cards.find_one raises inside write_output_file: main's except
\* records the message and continues.
WriteOutputFailA(p) ==
    /\ variant = "A"
    /\ ps[p].pc = "returned"
    /\ output_file' = Append(output_file, PartialBlock(ps[p]))
    /\ ps' = [ps EXCEPT ![p] = Continue(@, "Exception")]
    /\ UNCHANGED <<fs, bucket>>
    /\ CatalogUnchanged /\ Frame

\* B: cards_data[-len(valid_files)] is an index error
first_card_index_error(cards_data, valid_files) ==
    cards_data # <<>> /\ valid_files # <<>> /\ Len(valid_files) > Len(cards_data)

\* B: the block of one directory; last_card_id and first_card_id are read
\* from the cards file by position.
BlockB(l, cards_data) ==
    [group |-> l.dir.group, collection |-> l.dir.folder,
     ncards |-> Len(l.result.valid_files), files |-> l.result.valid_files,
     first |-> IF cards_data # <<>> /\ l.result.valid_files # <<>>
               THEN cards_data[Len(cards_data) - Len(l.result.valid_files) + 1].id
               ELSE NoneId,
     last |-> IF cards_data # <<>> THEN cards_data[Len(cards_data)].id ELSE NoneId,
     errors |-> l.error_messages, complete |-> TRUE,
     added |-> IF Truthy(l.result.new_collection_added) THEN "added" ELSE "updated"]

WriteOutputB(p) ==
    /\ variant = "B"
    /\ ps[p].pc = "returned"
    /\ ~first_card_index_error(cards_file, ps[p].result.valid_files)
    /\ output_file' = Append(output_file, BlockB(ps[p], cards_file))
    /\ ps' = [ps EXCEPT ![p] = Continue(@, "none")]
    /\ UNCHANGED <<fs, bucket>>
    /\ CatalogUnchanged /\ Frame

\* B: the index error is raised outside any try: main ends with it.
WriteOutputCrashB(p) ==
    /\ variant = "B"
    /\ ps[p].pc = "returned"
    /\ first_card_index_error(cards_file, ps[p].result.valid_files)
    /\ output_file' = Append(output_file, PartialBlock(ps[p]))
    /\ ps' = [ps EXCEPT ![p].pc = "crashed", ![p].raised = "IndexError"]
    /\ UNCHANGED <<fs, bucket>>
    /\ CatalogUnchanged /\ Frame

-----------------------------------------------------------------------------
(* The pipeline run by one process *)

\* The steps the two variants share.
Common(p) ==
    \/ MainNext(p)
    \/ MainDone(p)
    \/ CreateFolder(p)
    \/ CreateFolderFail(p)
    \/ RenameFiles(p)
    \/ RenameFilesFail(p)
    \/ Submit(p)
    \/ \E f \in DOMAIN ps[p].futures : TaskStart(p, f)
    \/ \E f \in DOMAIN ps[p].futures : TaskSkip(p, f)
    \/ \E f \in DOMAIN ps[p].futures : TaskUpload(p, f)
    \/ \E f \in DOMAIN ps[p].futures : TaskUploadFail(p, f)
    \/ Collect(p)
    \/ CollectEnd(p)
    \/ Shutdown(p)

\* The steps of automate.py alone.
OnlyA(p) ==
    \/ FindCollection(p)
    \/ InsertCollection(p)
    \/ FindLastCard(p)
    \/ InsertCard(p)
    \/ UpdateDatabaseReturn(p)
    \/ DatabaseFail(p)
    \/ WriteOutputA(p)
    \/ WriteOutputFailA(p)

\* The steps of promoauto.py alone.
OnlyB(p) ==
    \/ JsonLoad(p)
    \/ JsonBuild(p)
    \/ WriteCards(p)
    \/ WriteCollections(p)
    \/ JsonFail(p)
    \/ WriteOutputB(p)
    \/ WriteOutputCrashB(p)

\* Everything but the processes is as the program finds it at its start.
Fresh ==
    /\ fs = InitialFiles
    /\ bucket = {}
    /\ db_collections = <<>>
    /\ db_cards = <<>>
    /\ collections_file = <<>>
    /\ cards_file = <<>>
    /\ output_file = <<>>
    /\ at_entry = [p \in Procs |-> EmptyCatalog]
    /\ after_pass = <<>>

NoVerdict == [done |-> FALSE, A |-> FALSE, B |-> FALSE]

\* One pipeline process, either variant, on an empty catalog.
Init ==
    /\ variant \in {"A", "B"}
    /\ Fresh
    /\ \E todo \in InputLists(variant) :
          ps = [p \in Procs |-> IF p = 1 THEN Locals(todo) ELSE Idle]
    /\ path = <<>>
    /\ verdict = NoVerdict

Next == \E p \in Procs : Common(p) \/ OnlyA(p) \/ OnlyB(p)

Spec == Init /\ [][Next]_vars

-----------------------------------------------------------------------------
(* Two processes of automate.py on the same document store *)

\* Two directories of the same folder name, one per process.
RaceDirs == {d \in Dirs : d.folder = "x"}

InitRace ==
    /\ variant = "A"
    /\ Fresh
    /\ \E d1 \in RaceDirs, d2 \in RaceDirs :
          /\ d1.group = "girlgroups"
          /\ d2.group = "boygroups"
          /\ ps = [p \in Procs |-> IF p = 1 THEN Locals(<<d1>>) ELSE Locals(<<d2>>)]
    /\ path = <<>>
    /\ verdict = NoVerdict

NextRace == \E p \in Procs : Common(p) \/ OnlyA(p)

SpecRace == InitRace /\ [][NextRace]_vars

-----------------------------------------------------------------------------
(* The validators applied to a path *)

PathChars == {"1", "_", "a", ".", "!"}

s_3_iu_png == <<"3", "_", "i", "u", ".", "p", "n", "g">>
s_iu_png == <<"i", "u", ".", "p", "n", "g">>
s_12_red_velvet_irene_jpg ==
    <<"1", "2", "_", "r", "e", "d", "_", "v", "e", "l", "v", "e", "t", "_",
      "i", "r", "e", "n", "e", ".", "j", "p", "g">>

Paths ==
    UNION {[1..n -> PathChars] : n \in 0..MaxLen}
        \cup {s_3_iu_png, s_iu_png, s_12_red_velvet_irene_jpg}

InitValid ==
    /\ variant = "A"
    /\ Fresh
    /\ ps = [p \in Procs |-> Idle]
    /\ path \in Paths
    /\ verdict = NoVerdict

\* is_valid_filename(path) of each variant
Validate ==
    /\ ~verdict.done
    /\ verdict' = [done |-> TRUE, A |-> is_valid_filename_A(path),
                   B |-> is_valid_filename_B(path)]
    /\ UNCHANGED <<variant, fs, bucket, db_collections, db_cards, collections_file,
                   cards_file, output_file, ps, at_entry, path, after_pass>>

NextValid == Validate

SpecValid == InitValid /\ [][NextValid]_vars

-----------------------------------------------------------------------------
(* Properties *)

HasDuplicateIds(cards) ==
    \E a, b \in 1..Len(cards) : a # b /\ cards[a].id = cards[b].id

IdTaken(cards, id) == \E k \in 1..Len(cards) : cards[k].id = id

\* An upload task of the directory the process works on has raised, or
\* process_directory has returned because one had.
UploadFailed(l) ==
    \/ \E f \in DOMAIN l.futures : l.futures[f] = "raised"
    \/ l.pc = "returned" /\ l.raised = "CardProcessingError1"

\* process_directory has returned from a run in which nothing raised.
Completed(l) == l.pc = "returned" /\ l.raised = "none"

\* The card records added to the catalog since process_directory was called.
NewCards(p) == SubSeq(Cards, Len(at_entry[p].cards) + 1, Len(Cards))

\* ".gif" in any mix of upper and lower case
IsGifExt(e) ==
    /\ Len(e) = 4
    /\ e[1] = "."
    /\ e[2] \in {"g", "G"}
    /\ e[3] \in {"i", "I"}
    /\ e[4] \in {"f", "F"}

\* C1: in a single process that starts on an empty catalog, the card records
\* carry the ids 0, 1, 2, .. in insertion order, whatever the collection.
C1_IdsAreDense == \A k \in 1..Len(Cards) : Cards[k].id = k - 1

\* Cards of two collections, inserted by two directory runs.
C1_Witness ==
    /\ variant = "A"
    /\ Len(db_cards) = 4
    /\ db_cards[1].col # db_cards[4].col
    /\ ps[1].pc = "done"

\* C2: with two processes on one document store, a process that inserts the
\* card for an id it read before another process took that id leaves two card
\* records with the same id: the read and the insert are separate steps.
C2_StaleReadInsertsDuplicate ==
    [][\A p \in Procs :
          (InsertCard(p) /\ IdTaken(db_cards, ps[p].next_id))
              => HasDuplicateIds(db_cards')]_vars

\* Two card records with the same id.
C2_Witness == HasDuplicateIds(db_cards)

\* C3: once an upload of the directory has failed, the catalog is as it was
\* when the directory run began: no collection record, no card record.
C3_NoCatalogWriteAfterUploadFailure ==
    \A p \in Procs : UploadFailed(ps[p]) => Catalog = at_entry[p]

\* The first run has returned after one upload succeeded and one failed.
C3_Witness ==
    /\ ps[1].pc = "returned"
    /\ ps[1].raised = "CardProcessingError1"
    /\ output_file = <<>>
    /\ \E o \in bucket : o.source # <<>>

\* C4: the block written for a directory whose run had a failed upload has
\* a non-empty Errors section.
C4_ReportHasErrorEntry ==
    [][\A p \in Procs :
          (ps[p].pc = "returned" /\ UploadFailed(ps[p]) /\ ps'[p].pc # "returned")
              => /\ Len(output_file') = Len(output_file) + 1
                 /\ output_file'[Len(output_file')].errors # <<>>]_vars

\* C5: the catalog holds at most one collection record per folder name.
C5_OneCollectionPerFolder ==
    \A a, b \in 1..Len(Collections) :
        Collections[a].id = Collections[b].id => a = b

\* Two runs for the same folder name have both uploaded files and reported.
C5_Witness ==
    /\ Len(output_file) = 2
    /\ output_file[1].collection = output_file[2].collection
    /\ output_file[1].ncards > 0
    /\ output_file[2].ncards > 0
    /\ Len(Collections) = 1

\* C6: when a directory run completes, the signal process_directory returns
\* is true exactly when this run created the collection record.
C6_CreatedSignal ==
    \A p \in Procs :
        Completed(ps[p])
            => (Truthy(ps[p].result.new_collection_added)
                  <=> ~collection_exists(at_entry[p].collections, ps[p].dir.folder))

NamesToAdd(p) ==
    {name_without_prefix(f) :
        f \in {g \in SeqToSet(ps[p].result.valid_files) :
                    Lower(Ext(g)) \in ACCEPTED_EXTENSIONS}}
    \ {at_entry[p].cards[k].name :
        k \in {j \in 1..Len(at_entry[p].cards) : at_entry[p].cards[j].col = ps[p].dir.folder}}

C8_UrlExtensionMatchesKey ==
    \A k \in 1..Len(db_cards) :
        \E o \in bucket :
            /\ o.source # <<>>
            /\ o.key[2] = db_cards[k].tags
            /\ o.key[3] = db_cards[k].col
            /\ name_without_prefix(o.source) = db_cards[k].name
            /\ level_of(o.source) = db_cards[k].level
            /\ Ext(o.key[4]) = Ext(db_cards[k].url[4])

\* C9: every uploaded object lies under the stem of its source path with the
\* source extension for a gif (in any case) and ".jpg" otherwise, with the
\* content type to match; the upload result holds the source path itself.
C9_UploadKeyAndContentType ==
    /\ \A o \in bucket :
          o.source # <<>> =>
              /\ Stem(o.key[4]) = Stem(o.source)
              /\ Ext(o.key[4]) = IF IsGifExt(Ext(o.source)) THEN Ext(o.source) ELSE JpgExt
              /\ o.content_type = IF IsGifExt(Ext(o.source)) THEN "image/gif" ELSE "image/jpeg"
    /\ \A p \in Procs : \A k \in 1..Len(ps[p].valid_files) :
          /\ ps[p].valid_files[k] \in fs[ps[p].dir.path]
          /\ \E o \in bucket : o.source = ps[p].valid_files[k]

\* An upper-case gif and a png have been uploaded in one run.
C9_Witness ==
    /\ \E o \in bucket : Ext(o.source) = <<".", "G", "I", "F">>
    /\ \E o \in bucket : Ext(o.source) = PngExt
    /\ Len(ps[1].valid_files) = 2

\* <digits>_<word chars>[_<word chars>].<rest>, from the start of the path
HasClaimedShape(s) ==
    \E d \in 1..Len(s) : \E w \in (d + 2)..Len(s) :
        /\ AllDigits(s, 1, d)
        /\ s[d + 1] = "_"
        /\ AllWord(s, d + 2, w)
        /\ w + 2 <= Len(s)
        /\ s[w + 1] = "."

HasLeadingDigits(s) == s # <<>> /\ IsDigit(s[1])

HasNameSegment(s) ==
    \E d \in 1..Len(s) :
        /\ AllDigits(s, 1, d)
        /\ d + 2 <= Len(s)
        /\ s[d + 1] = "_"
        /\ IsWord(s[d + 2])

\* C10: the validator of each variant accepts every path of the claimed
\* shape and rejects every path without leading digits or without a name
\* segment after the underscore.
C10_ValidatorAcceptsShape ==
    verdict.done =>
        /\ HasClaimedShape(path) => verdict.A /\ verdict.B
        /\ ~(HasLeadingDigits(path) /\ HasNameSegment(path)) => ~verdict.A /\ ~verdict.B

\* The step of process_directory a position lies in: 1 create folder,
\* 2 rename files, 3 upload files, 4 update catalog; 0 outside the run.
StepOf(pc) ==
    CASE pc = "create_folder" -> 1
      [] pc = "rename_files" -> 2
      [] pc \in {"upload_files", "as_completed", "shutdown"} -> 3
      [] pc \in {"find_collection", "insert_collection", "find_last_card",
                 "insert_card", "json_load", "json_build", "write_cards",
                 "write_collections"} -> 4
      [] OTHER -> 0

\* The objects of the directory's files in the object store.
FileObjects(d) ==
    {o \in bucket : o.source # <<>> /\ SubSeq(o.key, 1, 3) = SubSeq(s3_path(variant, d, <<>>), 1, 3)}

\* What each step finds done when it runs, in a process whose directories
\* are all different.
StepsInOrder(p) ==
    LET l == ps[p]
        step == StepOf(l.pc)
    IN  /\ step = 1 =>
              /\ FolderObject(variant, l.dir) \notin bucket
              /\ fs[l.dir.path] = InitialFiles[l.dir.path]
        /\ step \in {1, 2} =>
              /\ FileObjects(l.dir) = {}
              /\ l.futures = <<>>
        /\ step \in {2, 3, 4} => FolderObject(variant, l.dir) \in bucket
        /\ step \in {3, 4} =>
              fs[l.dir.path] = {normalize(f) : f \in InitialFiles[l.dir.path]}
        /\ step \in {1, 2, 3} => Catalog = at_entry[p]
        /\ step = 4 =>
              \A f \in fs[l.dir.path] :
                  /\ l.futures[f] \in {"none", "returned"}
                  /\ l.futures[f] = "returned" =>
                        UploadedObject(variant, l.dir, f) \in bucket

\* A step of the process: the run moves to the next step or ends, and a step
\* that ends the run with an exception leaves what the later steps write as
\* it was.
StepsShortCircuit(p) ==
    LET a == StepOf(ps[p].pc)
        b == StepOf(ps'[p].pc)
    IN  /\ b \in {0, a, a + 1}
        /\ (a = 0 /\ b = 1) => ps[p].pc = "main"
        /\ (a \in {1, 2, 3} /\ b = 0) =>
              /\ ps'[p].raised # "none"
              /\ bucket' = bucket
              /\ Catalog' = Catalog
              /\ a = 1 => fs' = fs
        /\ (a = 4 /\ b = 0 /\ ps'[p].raised = "none") => ps'[p].pc = "returned"

\* C11: within a directory run the steps are create folder, rename files,
\* upload files, update catalog, in this order, each after the one before
\* has completed; when a step fails none of the later steps is executed.
C11_StepsInOrder ==
    /\ [](\A p \in Procs : StepsInOrder(p))
    /\ [][\A p \in Procs : StepsShortCircuit(p)]_vars

\* The rename step has failed after renaming one file: the folder marker is
\* there, no file has been uploaded and the catalog is empty.
C11_Witness ==
    /\ ps[1].pc = "returned"
    /\ ps[1].raised = "Exception"
    /\ FolderObject(variant, ps[1].dir) \in bucket
    /\ fs[ps[1].dir.path] # InitialFiles[ps[1].dir.path]
    /\ FileObjects(ps[1].dir) = {}
    /\ Cards = <<>>
    /\ output_file = <<>>

\* C12: whenever a step of a directory run fails, process_directory returns
\* the pair (empty upload list, no new collection) to main.
C12_FailureReturnsEmptyPair ==
    [][\A p \in Procs :
          (StepOf(ps[p].pc) # 0 /\ StepOf(ps'[p].pc) = 0 /\ ps'[p].raised # "none")
              => /\ ps'[p].pc = "returned"
                 /\ ps'[p].result = [valid_files |-> <<>>, new_collection_added |-> "False"]]_vars

\* C13: the batch driver is never ended by what happens in one directory
\* while input directories are left that it has not attempted.
C13_BatchAttemptsEveryDirectory ==
    \A p \in Procs : ps[p].pc = "crashed" => ps[p].todo = <<>>

\* Card record c is the record of file f of directory d.
CardOfFile(c, d, f) ==
    /\ c.name = name_without_prefix(f)
    /\ c.level = level_of(f)
    /\ c.col = d.folder

\* C14: when a step of a process adds card records to the catalog, each of
\* them is the record of a file of the directory the process works on whose
\* upload task has returned the file in this run, and whose object is in the
\* object store; the records that were there stay as they were.
C14_CardsOnlyAfterUpload ==
    [][\A p \in Procs :
          (ps'[p] # ps[p] /\ Cards' # Cards) =>
              /\ Len(Cards') > Len(Cards)
              /\ SubSeq(Cards', 1, Len(Cards)) = Cards
              /\ \A k \in (Len(Cards) + 1)..Len(Cards') :
                    \E f \in DOMAIN ps[p].futures :
                        /\ ps[p].futures[f] = "returned"
                        /\ CardOfFile(Cards'[k], ps[p].dir, f)
                        /\ \E o \in bucket :
                              o.key = s3_path(variant, ps[p].dir, f) /\ o.source = f]_vars

\* Two card records have been inserted in a run in which a third file was
\* skipped as invalid.
C14_Witness ==
    /\ Len(Cards) = 2
    /\ StepOf(ps[1].pc) = 4
    /\ \E f \in DOMAIN ps[1].futures : ps[1].futures[f] = "none"
    /\ \A k \in 1..2 : \E f \in DOMAIN ps[1].futures :
          ps[1].futures[f] = "returned" /\ CardOfFile(Cards[k], ps[1].dir, f)

\* C15: a file whose path fails the validator has no object in the object
\* store, its task never raises, and it is not in the upload result; a run
\* that completes has uploaded exactly the valid files of the directory, and
\* each card record it added is the record of one of them (one record per
\* valid file in the document-store variant).
C15_InvalidFilesSkipped ==
    /\ \A o \in bucket : o.source # <<>> => is_valid_filename(variant, o.source)
    /\ \A p \in Procs :
          /\ \A f \in DOMAIN ps[p].futures :
                ~is_valid_filename(variant, f)
                    => ps[p].futures[f] \in {"queued", "running", "none"}
          /\ \A k \in 1..Len(ps[p].valid_files) :
                is_valid_filename(variant, ps[p].valid_files[k])
          /\ Completed(ps[p]) =>
                /\ SeqToSet(ps[p].result.valid_files) =
                      {f \in fs[ps[p].dir.path] : is_valid_filename(variant, f)}
                /\ \A f \in SeqToSet(ps[p].result.valid_files) :
                      \E o \in bucket : o.source = f
                /\ \A k \in 1..Len(NewCards(p)) :
                      \E f \in SeqToSet(ps[p].result.valid_files) :
                          CardOfFile(NewCards(p)[k], ps[p].dir, f)
                /\ variant = "A" =>
                      Len(NewCards(p)) =
                          Cardinality({f \in fs[ps[p].dir.path] :
                                          is_valid_filename(variant, f)})

\* A run has completed on a directory with one invalid and two valid files:
\* two objects of the directory, two card records, none for the invalid file.
C15_Witness ==
    /\ Completed(ps[1])
    /\ Cardinality({f \in fs[ps[1].dir.path] : ~is_valid_filename(variant, f)}) = 1
    /\ Cardinality(FileObjects(ps[1].dir)) = 2
    /\ Len(NewCards(1)) = 2
    /\ \A f \in fs[ps[1].dir.path] :
          ~is_valid_filename(variant, f) => \A o \in bucket : o.source # f

-----------------------------------------------------------------------------
(* The two catalog backends side by side, single-threaded *)

RECURSIVE update_database_cards(_, _, _)
\* A: db.cards after the loop of update_database over valid_files, when no
\* other process writes: the next id is read again before each insertion.
update_database_cards(cards, d, valid_files) ==
    IF valid_files = <<>> THEN cards
    ELSE update_database_cards(
             Append(cards, new_card_A(d, Head(valid_files), next_id_A(cards))),
             d, Tail(valid_files))

\* The catalogs the comparison starts from: a list of (directory, file, id),
\* stored by each backend in its own record format.
SeedCatalogs ==
    { <<>>,
      <<[d |-> [path |-> "gg/y", group |-> "girlgroups", folder |-> "y"],
         file |-> f_3_e_f_jpeg, id |-> 4]>>,
      <<[d |-> [path |-> "gg/y", group |-> "girlgroups", folder |-> "y"],
         file |-> f_2_a_b_jpg, id |-> 0]>> }

\* The directory sequences of the comparison; a directory may come again.
BackendLists ==
    { s \in UNION {[1..n -> Dirs] : n \in 1..MaxDirs} :
        /\ \A k \in 1..Len(s) : s[k].group \in {"girlgroups", "boygroups"}
        /\ \A k \in 1..(Len(s) - 1) :
              GroupIndex("A", s[k].group) <= GroupIndex("A", s[k + 1].group) }

InitBackends ==
    /\ variant = "A"
    /\ fs = [q \in DirPaths |-> {normalize(f) : f \in InitialFiles[q]}]
    /\ bucket = {}
    /\ \E seed \in SeedCatalogs :
          /\ db_cards = [k \in 1..Len(seed) |->
                            new_card_A(seed[k].d, seed[k].file, seed[k].id)]
          /\ cards_file = [k \in 1..Len(seed) |->
                              new_card_B(seed[k].d, seed[k].d.group, seed[k].file,
                                         seed[k].id)]
          /\ db_collections = [k \in 1..Len(seed) |->
                                  new_collection(seed[k].d.folder, seed[k].d.group)]
          /\ collections_file = [k \in 1..Len(seed) |->
                                    new_collection(seed[k].d.folder, seed[k].d.group)]
    /\ output_file = <<>>
    /\ at_entry = [p \in Procs |-> EmptyCatalog]
    /\ after_pass = <<>>
    /\ \E todo \in BackendLists :
          ps = [p \in Procs |-> IF p = 1 THEN Locals(todo) ELSE Idle]
    /\ path = <<>>
    /\ verdict = NoVerdict

\* One directory through update_database and through update_json_files, with
\* the same upload result: the files both validators accept, in the order
\* the directory lists them.
RunBackends(p) ==
    /\ ps[p].pc = "main"
    /\ ps[p].todo # <<>>
    /\ LET d == Head(ps[p].todo)
       IN  \E valid_files \in
                  Listings({f \in fs[d.path] : is_valid_filename_A(f)
                                                  /\ is_valid_filename_B(f)}) :
              /\ db_collections' = collections_after(db_collections, d.folder, d.group)
              /\ db_cards' = update_database_cards(db_cards, d, valid_files)
              /\ collections_file' =
                    collections_after(collections_file, d.folder,
                                      TargetDirectory("B", d.group))
              /\ cards_file' =
                    card_loop_B(cards_file, next_id_B(cards_file), d,
                                TargetDirectory("B", d.group), valid_files, valid_files)
    /\ ps' = [ps EXCEPT ![p].todo = Tail(@)]
    /\ UNCHANGED <<fs, bucket, output_file>>
    /\ Frame

NextBackends == \E p \in Procs : RunBackends(p)

SpecBackends == InitBackends /\ [][NextBackends]_vars

\* The fields of a card record the two backends share.
CardCore(c) == [id |-> c.id, name |-> c.name, level |-> c.level, col |-> c.col]

\* C16: after the same directories with the same upload results, the two
\* backends hold the same collections and the same card records.
C16_BackendsAgree ==
    /\ db_collections = collections_file
    /\ Len(db_cards) = Len(cards_file)
    /\ \A k \in 1..Len(db_cards) : CardCore(db_cards[k]) = CardCore(cards_file[k])

\* C17: when no process is in the middle of a catalog update, every card
\* record of the persisted catalog names a collection the catalog holds.
C17_CardsReferToCollections ==
    (\A p \in Procs : StepOf(ps[p].pc) # 4)
        => \A k \in 1..Len(Cards) : collection_exists(Collections, Cards[k].col)

-----------------------------------------------------------------------------
(* rename_files applied to one file again and again *)

NameChars == {"A", "a", " ", "_", "."}

Names == UNION {[1..n -> NameChars] : n \in 0..MaxNameLen}

InitNorm ==
    /\ variant = "A"
    /\ Fresh
    /\ ps = [p \in Procs |-> Idle]
    /\ path \in Names
    /\ verdict = NoVerdict

\* One pass of rename_files over the file, under the name the pass before
\* left it with.
RenamePass ==
    /\ Len(after_pass) < MaxPasses
    /\ after_pass' =
          Append(after_pass,
                 normalize(IF after_pass = <<>> THEN path
                           ELSE after_pass[Len(after_pass)]))
    /\ UNCHANGED <<variant, fs, bucket, db_collections, db_cards, collections_file,
                   cards_file, output_file, ps, at_entry, path, verdict>>

NextNorm == RenamePass

SpecNorm == InitNorm /\ [][NextNorm]_vars

\* C18: the first pass of rename_files lower-cases the stem and replaces its
\* spaces by underscores, and leaves the extension as it is; every further
\* pass leaves the name as the first pass made it.
C18_NormalizeIdempotent ==
    /\ Len(after_pass) >= 1 =>
          /\ Len(after_pass[1]) = Len(path)
          /\ \A k \in 1..Len(path) :
                after_pass[1][k] =
                    IF k > Len(Stem(path)) THEN path[k]
                    ELSE IF path[k] = "A" THEN "a"
                    ELSE IF path[k] = " " THEN "_"
                    ELSE path[k]
    /\ \A k \in 2..Len(after_pass) : after_pass[k] = after_pass[1]

\* Two passes over a name with an upper-case letter and a space in the stem
\* and an upper-case letter in the extension.
C18_Witness ==
    /\ Len(after_pass) = 2
    /\ \E a, b \in 1..Len(Stem(path)) : path[a] = "A" /\ path[b] = " "
    /\ \E k \in 1..Len(Ext(path)) : Ext(path)[k] = "A"
    /\ after_pass[1] # path

\* C19: outside the upload step of a process none of its upload tasks is
\* queued or running; the process leaves the upload step, by return or by
\* exception, only when none is; and an object of a file is stored only by a
\* step of the process that is in the upload step of the file's directory.
C19_NoUploadOutsideUploadStep ==
    /\ [](\A p \in Procs : StepOf(ps[p].pc) # 3 => Unfinished(ps[p]) = {})
    /\ [][\A p \in Procs :
            (StepOf(ps[p].pc) = 3 /\ StepOf(ps'[p].pc) # 3)
                => Unfinished(ps[p]) = {} /\ bucket' = bucket]_vars
    /\ [][\A o \in bucket' \ bucket :
            o.source # <<>> =>
                \E p \in Procs :
                    /\ StepOf(ps[p].pc) = 3
                    /\ StepOf(ps'[p].pc) = 3
                    /\ ps'[p].dir = ps[p].dir
                    /\ o = UploadedObject(variant, ps[p].dir, o.source)]_vars

\* An upload has raised and upload_files waits in the exit of the with
\* block while one task runs and another is still queued.
C19_Witness ==
    /\ ps[1].pc = "shutdown"
    /\ ps[1].raised = "CardProcessingError1"
    /\ \E f, g \in DOMAIN ps[1].futures :
          ps[1].futures[f] = "running" /\ ps[1].futures[g] = "queued"

\* How many times the task of file f has run to its end.
Attempts(l, f) == Cardinality({k \in 1..Len(l.finished) : l.finished[k] = f})

\* C20: once the tasks are submitted there is one task per file of the
\* directory, and no task has run more than once; a task that has ended
\* keeps its outcome for the rest of the run; and when the process leaves the
\* upload step, also by an exception, the task of every file has run exactly
\* once, the upload of every valid file having returned or raised.
C20_OneAttemptPerFile ==
    /\ [](\A p \in Procs :
            ps[p].pc \in {"as_completed", "shutdown"} =>
                /\ DOMAIN ps[p].futures = fs[ps[p].dir.path]
                /\ \A f \in DOMAIN ps[p].futures :
                      /\ Attempts(ps[p], f) <= 1
                      /\ Attempts(ps[p], f) = 1
                            <=> ps[p].futures[f] \in {"none", "returned", "raised"})
    /\ [][\A p \in Procs : \A f \in DOMAIN ps[p].futures :
            (/\ ps[p].futures[f] \in {"none", "returned", "raised"}
             /\ ps'[p].dir = ps[p].dir
             /\ f \in DOMAIN ps'[p].futures)
                => ps'[p].futures[f] = ps[p].futures[f]]_vars
    /\ [][\A p \in Procs :
            (StepOf(ps[p].pc) = 3 /\ StepOf(ps'[p].pc) # 3) =>
                \A f \in fs[ps[p].dir.path] :
                    /\ Attempts(ps[p], f) = 1
                    /\ ps[p].futures[f] \in
                          IF is_valid_filename(variant, f)
                          THEN {"returned", "raised"} ELSE {"none"}]_vars

\* The exception of a failed upload has been taken from its future, and the
\* uploads of two other files have ended after the failed one, one of them
\* stored.
C20_Witness ==
    /\ ps[1].pc = "shutdown"
    /\ ps[1].raised = "CardProcessingError1"
    /\ Len(ps[1].finished) = 3
    /\ ps[1].futures[ps[1].finished[1]] = "raised"
    /\ \E k \in 2..3 : ps[1].futures[ps[1].finished[k]] = "returned"

\* C21: in the document-store variant, when the lookup or the insertion for
\* the k-th card of the directory raises, process_directory returns the empty
\* pair after a CardProcessingError of code 2, the collection record and the
\* k-1 card records inserted before are in the catalog as they were, and
\* nothing is written to the catalog outside the catalog update.
C21_NoRollbackOnCardFailure ==
    /\ [][\A p \in Procs :
            (/\ variant = "A"
             /\ ps[p].pc \in {"find_last_card", "insert_card"}
             /\ StepOf(ps'[p].pc) = 0
             /\ ps'[p].raised # "none")
                => /\ ps'[p].raised = "CardProcessingError2"
                   /\ ps'[p].pc = "returned"
                   /\ ps'[p].result = [valid_files |-> <<>>,
                                       new_collection_added |-> "False"]
                   /\ db_collections' = db_collections
                   /\ collection_exists(db_collections', ps[p].dir.folder)
                   /\ db_cards' = db_cards
                   /\ Len(db_cards') = Len(at_entry[p].cards) + ps[p].i - 1
                   /\ ps[p].i <= Len(ps[p].valid_files)]_vars
    /\ [][\A p \in Procs :
            (variant = "A" /\ ps'[p] # ps[p] /\ StepOf(ps[p].pc) # 4)
                => Catalog' = Catalog]_vars

\* The insertion of the second of two cards has failed: the new collection
\* and the first card are in the catalog, the run has returned the empty pair.
C21_Witness ==
    /\ variant = "A"
    /\ ps[1].pc = "returned"
    /\ ps[1].raised = "CardProcessingError2"
    /\ ps[1].result.valid_files = <<>>
    /\ Cardinality(FileObjects(ps[1].dir)) = 2
    /\ Len(NewCards(1)) = 1
    /\ ~collection_exists(at_entry[1].collections, ps[1].dir.folder)
    /\ collection_exists(db_collections, ps[1].dir.folder)

\* C22: in the JSON-file variant both files are as they were when the
\* directory run began for as long as the catalog update has not reached its
\* writes, and a failure while it loads the files or builds the records in
\* memory ends the run with both files unchanged.
C22_FilesUntouchedBeforeWrite ==
    /\ [](\A p \in Procs :
            (variant = "B" /\ ps[p].pc \in {"json_load", "json_build", "write_cards"})
                => /\ cards_file = at_entry[p].cards
                   /\ collections_file = at_entry[p].collections)
    /\ [][\A p \in Procs :
            (/\ variant = "B"
             /\ ps[p].pc \in {"json_load", "json_build"}
             /\ StepOf(ps'[p].pc) = 0)
                => /\ ps'[p].raised = "CardProcessingError2"
                   /\ cards_file' = at_entry[p].cards
                   /\ collections_file' = at_entry[p].collections]_vars

\* The catalog update of a run that uploaded two files with accepted
\* extensions into a new folder has failed: both files are still empty.
C22_Witness ==
    /\ variant = "B"
    /\ ps[1].pc = "returned"
    /\ ps[1].raised = "CardProcessingError2"
    /\ \E o \in FileObjects(ps[1].dir) : Lower(Ext(o.source)) \in ACCEPTED_EXTENSIONS
    /\ Cardinality(FileObjects(ps[1].dir)) = 2
    /\ cards_file = <<>>
    /\ collections_file = <<>>
    /\ at_entry[1] = EmptyCatalog

\* C23: the number of cards in the block a process writes for a directory
\* is the number of card records its run of the directory added.
C23_ReportedCountIsCardsAdded ==
    [][\A p \in Procs :
          (ps'[p] # ps[p] /\ Len(output_file') = Len(output_file) + 1)
              => output_file'[Len(output_file')].ncards = Len(NewCards(p))]_vars

=============================================================================
